---- MODULE Spec2Model ----
(***************************************************************************)
(* Model of the two optimization notebooks:                                *)
(*   optimization/graph_partition.ipynb  (brute_force oracle over w)        *)
(*   optimization/partition.ipynb        (number partition cells)           *)
(* Vertices and list positions are numbered 1..n here (0..n-1 in Python).   *)
(***************************************************************************)
EXTENDS Integers, Sequences, FiniteSets

VARIABLES num_nodes, w, i, minimal_v, sol, pc, visited, evaluated,
          number_list, qubitOp, offset, x, cell, out

gvars == <<num_nodes, w, i, minimal_v, sol, pc, visited, evaluated>>
pvars == <<number_list, qubitOp, offset, x, cell, out>>
vars == <<num_nodes, w, i, minimal_v, sol, pc, visited, evaluated,
          number_list, qubitOp, offset, x, cell, out>>

\* ------------------------------------------------------------------ bounds
MaxNodes == 4
MaxLen == 3
MaxNumber == 3

\* ------------------------------------------------------- numeric helpers
RECURSIVE Pow2(_)
Pow2(k) == IF k = 0 THEN 1 ELSE 2 * Pow2(k - 1)

RECURSIVE SumSeq(_)
SumSeq(s) == IF s = <<>> THEN 0 ELSE Head(s) + SumSeq(Tail(s))

\* np.sum of a square matrix given as a sequence of rows
RECURSIVE npSum(_)
npSum(M) == IF M = <<>> THEN 0 ELSE SumSeq(Head(M)) + npSum(Tail(M))

\* np.inf and finite floats, as brute_force compares them
Inf == [inf |-> TRUE, val |-> 0]
Num(v) == [inf |-> FALSE, val |-> v]
Less(a, b) == ~a.inf /\ (b.inf \/ a.val < b.val)

RECURSIVE SumOver(_, _)
SumOver(S, f) ==
    IF S = {} THEN 0
    ELSE LET e == CHOOSE e \in S : TRUE IN f[e] + SumOver(S \ {e}, f)

MinOf(S) == CHOOSE v \in S : \A u \in S : v <= u

Assignments(n) == [1..n -> {0, 1}]

\* ------------------------------------------------- graph_partition.ipynb
\* bitfield(n, L): digits of np.binary_repr(n, L), most significant first
bitfield(n, L) == [k \in 1..L |-> (n \div Pow2(L - k)) % 2]

\* a miscount that leaves the leading digit out
count_nonzero_tail(cur) == Cardinality({k \in DOMAIN cur : k > 1 /\ cur[k] # 0})

\* np.count_nonzero(cur)
count_nonzero(cur) == Cardinality({k \in DOMAIN cur : cur[k] # 0})

\* graph_partition.objective_value(x, w):
\*   X = np.outer(x, 1 - x); w_01 = np.where(w != 0, 1, 0); np.sum(w_01 * X)
outer(a, b) == [r \in DOMAIN a |-> [c \in DOMAIN b |-> a[r] * b[c]]]
\* the mask taken as w > 0, so that negative weights are dropped
w_01_positive(m) == [r \in DOMAIN m |-> [c \in DOMAIN m[r] |-> IF m[r][c] > 0 THEN 1 ELSE 0]]

w_01(m) == [r \in DOMAIN m |-> [c \in DOMAIN m[r] |-> IF m[r][c] # 0 THEN 1 ELSE 0]]

\* the same sum taken over the weights themselves instead of the 0/1 mask
objective_value_weighted(a, m) ==
    LET X == outer(a, [k \in DOMAIN a |-> 1 - a[k]])
    IN npSum([r \in DOMAIN a |-> [c \in DOMAIN a |-> m[r][c] * X[r][c]]])

\* the same sum with the 1 - x factor left out of the outer product
objective_value_same_side(a, m) ==
    LET X == outer(a, a)
        W == w_01(m)
    IN npSum([r \in DOMAIN a |-> [c \in DOMAIN a |-> W[r][c] * X[r][c]]])

objective_value(a, m) ==
    LET X == outer(a, [k \in DOMAIN a |-> 1 - a[k]])
        W == w_01(m)
    IN npSum([r \in DOMAIN a |-> [c \in DOMAIN a |-> W[r][c] * X[r][c]]])

\* the adjacency matrix printed by the first cell
wExample == << <<0, 4, 5, 3>>, <<4, 0, -5, 7>>, <<5, -5, 0, 0>>, <<3, 7, 0, 0>> >>

\* random_graph(num_nodes, edge_prob=0.8, weight_range=10)
weight_range == 10

IsSymmetric(m) == \A r \in DOMAIN m : \A c \in DOMAIN m : m[r][c] = m[c][r]

\* random_graph(n, ...): every pair i < j is left at 0 or given a weight of
\* magnitude 1 .. weight_range - 1 of either sign, then w += w.T
random_graph(n) ==
    {m \in [1..n -> [1..n -> (1 - weight_range)..(weight_range - 1)]] :
        IsSymmetric(m) /\ \A r \in 1..n : m[r][r] = 0}

\* the weights of the graphs the runs start from: absent, positive, negative
Weights == {-5, 0, 4}

Pairs(n) == {p \in (1..n) \X (1..n) : p[1] < p[2]}

\* the outcomes of random_graph the runs start from: the printed matrix and
\* every symmetric matrix over Weights
sampled_graphs(n) ==
    {g \in {[r \in 1..n |-> [c \in 1..n |->
                IF r < c THEN u[<<r, c>>] ELSE IF c < r THEN u[<<c, r>>] ELSE 0]] :
            u \in [Pairs(n) -> Weights]}
           \cup (IF n = 4 THEN {wExample} ELSE {}) :
        g \in random_graph(n)}

PartitionIdle ==
    /\ number_list = <<>>
    /\ qubitOp = <<>>
    /\ offset = 0
    /\ x = <<>>
    /\ cell = "idle"
    /\ out = <<>>

\* a start value of 0 in place of np.inf
minimal_v_zero == Num(0)

\* minimal_v = np.inf
minimal_v_start == Inf

\* state on entry to brute_force: L = num_nodes, max = 2**L, minimal_v = np.inf
GraphInit ==
    /\ num_nodes \in 1..MaxNodes
    /\ w \in sampled_graphs(num_nodes)
    /\ i = 0
    /\ minimal_v = minimal_v_start
    /\ sol = Inf
    /\ pc = "loop"
    /\ visited = <<>>
    /\ evaluated = {}
    /\ PartitionIdle

\* one pass of the for loop whose assignment is not balanced: continue
LoopSkip ==
    /\ pc = "loop"
    /\ i < Pow2(num_nodes)
    /\ LET cur == bitfield(i, num_nodes)
       IN count_nonzero(cur) * 2 # num_nodes
    /\ visited' = Append(visited, i)
    /\ i' = i + 1
    /\ UNCHANGED <<num_nodes, w, minimal_v, sol, pc, evaluated>>
    /\ UNCHANGED pvars

\* one pass of the for loop on a balanced assignment
LoopEval ==
    /\ pc = "loop"
    /\ i < Pow2(num_nodes)
    /\ LET cur == bitfield(i, num_nodes)
           cur_v == Num(objective_value(cur, w))
       IN /\ count_nonzero(cur) * 2 = num_nodes
          /\ minimal_v' = IF Less(cur_v, minimal_v) THEN cur_v ELSE minimal_v
          /\ evaluated' = evaluated \cup {<<cur, cur_v.val>>}
    /\ visited' = Append(visited, i)
    /\ i' = i + 1
    /\ UNCHANGED <<num_nodes, w, sol, pc>>
    /\ UNCHANGED pvars

\* return minimal_v; sol = brute_force()
Return ==
    /\ pc = "loop"
    /\ i = Pow2(num_nodes)
    /\ sol' = minimal_v
    /\ pc' = "done"
    /\ UNCHANGED <<num_nodes, w, i, minimal_v, visited, evaluated>>
    /\ UNCHANGED pvars

GraphNext == LoopSkip \/ LoopEval \/ Return

Spec == GraphInit /\ [][GraphNext]_vars

\* ------------------------------------------------------- partition.ipynb
\* the list printed after read_numbers_from_file('sample.partition')
sample_partition == <<1, 3, 4, 7, 10, 13, 15, 16>>

\* read_numbers_from_file('sample.partition'): one number per line of the
\* file, which may hold the printed list or no line at all
read_numbers_from_file == {sample_partition, <<>>}

\* the list printed after random_number_list(5, weight_range=25)
seeded_list == <<9, 8, 23, 4, 2>>

\* random_number_list(n, weight_range): n integers from 1 to weight_range
random_number_list ==
    {seeded_list} \cup
    UNION {[1..n -> 1..MaxNumber] : n \in 1..MaxLen}

\* partition.get_operator with the factor 2 of the pair terms left out
get_operator_single(values) ==
    [op |-> [p \in {q \in (1..Len(values)) \X (1..Len(values)) : q[2] < q[1]} |->
                values[p[1]] * values[p[2]]],
     offset |-> SumSeq([k \in 1..Len(values) |-> values[k] * values[k]])]

\* partition.get_operator(values): the terms 2 v_i v_j Z_i Z_j for j < i,
\* and the offset sum(values * values)
get_operator(values) ==
    [op |-> [p \in {q \in (1..Len(values)) \X (1..Len(values)) : q[2] < q[1]} |->
                2 * values[p[1]] * values[p[2]]],
     offset |-> SumSeq([k \in 1..Len(values) |-> values[k] * values[k]])]

\* eigenvalue of the Z-only operator on the basis state b: Z_k acts as 1 - 2 b_k
Eigenvalue(op, b) ==
    SumOver(DOMAIN op,
            [p \in DOMAIN op |-> op[p] * (1 - 2 * b[p[1]]) * (1 - 2 * b[p[2]])])

\* the difference of the two sums returned without being squared
partition_value_unsquared(a, values) ==
    SumSeq([k \in 1..Len(values) |-> IF a[k] = 0 THEN values[k] ELSE 0])
    - SumSeq([k \in 1..Len(values) |-> IF a[k] = 1 THEN values[k] ELSE 0])

\* partition.partition_value(x, number_list):
\*   diff = sum(number_list[x == 0]) - sum(number_list[x == 1]); diff * diff
partition_value(a, values) ==
    LET diff ==
          SumSeq([k \in 1..Len(values) |-> IF a[k] = 0 THEN values[k] ELSE 0])
          - SumSeq([k \in 1..Len(values) |-> IF a[k] = 1 THEN values[k] ELSE 0])
    IN diff * diff

\* smallest eigenvalue of the operator, and the basis states that attain it
MinEigenvalue(op, n) == MinOf({Eigenvalue(op, b) : b \in Assignments(n)})
GroundStates(op, n) ==
    {b \in Assignments(n) : Eigenvalue(op, b) = MinEigenvalue(op, n)}

\* the lines a solver cell prints; status is "exact", "approximate" (the
\* energy VQE reports is a real number and is not represented) or "skipped"
Printed(solver, status, e, a) ==
    [solver |-> solver, status |-> status,
     energy |-> IF status = "exact" THEN e ELSE 0,
     objective |-> IF status = "exact" THEN e + offset ELSE 0,
     x |-> a,
     value |-> IF status = "skipped" THEN 0 ELSE partition_value(a, number_list)]

GraphIdle ==
    /\ num_nodes = 0
    /\ w = <<>>
    /\ i = 0
    /\ minimal_v = Inf
    /\ sol = Inf
    /\ pc = "idle"
    /\ visited = <<>>
    /\ evaluated = {}

PartitionInit ==
    /\ number_list = <<>>
    /\ qubitOp = <<>>
    /\ offset = 0
    /\ x = <<>>
    /\ cell = "read"
    /\ out = <<>>
    /\ GraphIdle

\* cell 2: number_list = read_numbers_from_file(...); get_operator
ReadNumbers ==
    /\ cell = "read"
    /\ \E values \in read_numbers_from_file :
          /\ number_list' = values
          /\ qubitOp' = get_operator(values).op
          /\ offset' = get_operator(values).offset
    /\ cell' = "random"
    /\ UNCHANGED <<x, out>>
    /\ UNCHANGED gvars

\* cell 3: number_list = random_number_list(...); get_operator
RandomNumbers ==
    /\ cell = "random"
    /\ \E values \in random_number_list :
          /\ number_list' = values
          /\ qubitOp' = get_operator(values).op
          /\ offset' = get_operator(values).offset
    /\ cell' = "numpy"
    /\ UNCHANGED <<x, out>>
    /\ UNCHANGED gvars

\* cell 5: NumPyMinimumEigensolver(qubitOp).run(); sample_most_likely
NumPySolve ==
    /\ cell = "numpy"
    /\ \E b \in GroundStates(qubitOp, Len(number_list)) :
          /\ x' = b
          /\ out' = Append(out, Printed("NumPyMinimumEigensolver", "exact",
                                        Eigenvalue(qubitOp, b), b))
    /\ cell' = "cplex"
    /\ UNCHANGED <<number_list, qubitOp, offset>>
    /\ UNCHANGED gvars

\* cell 6, try body completes: ClassicalCPLEX(qubitOp, display=0).run()
CplexSolve ==
    /\ cell = "cplex"
    /\ \E b \in GroundStates(qubitOp, Len(number_list)) :
          /\ x' = b
          /\ out' = Append(out, Printed("ClassicalCPLEX", "exact",
                                        Eigenvalue(qubitOp, b), b))
    /\ cell' = "vqe"
    /\ UNCHANGED <<number_list, qubitOp, offset>>
    /\ UNCHANGED gvars

\* the exception of the import or of run() escaping the cell
CplexAborts ==
    /\ cell = "cplex"
    /\ cell' = "aborted"
    /\ UNCHANGED <<number_list, qubitOp, offset, x, out>>
    /\ UNCHANGED gvars

\* cell 6, the import or run() raises: except Exception as ex: print(str(ex))
CplexSkipped ==
    /\ cell = "cplex"
    /\ out' = Append(out, Printed("ClassicalCPLEX", "skipped", 0, <<>>))
    /\ cell' = "vqe"
    /\ UNCHANGED <<number_list, qubitOp, offset, x>>
    /\ UNCHANGED gvars

\* cell 7: VQE(...).run(...); sample_most_likely
VQESolve ==
    /\ cell = "vqe"
    /\ \E b \in Assignments(Len(number_list)) :
          /\ x' = b
          /\ out' = Append(out, Printed("VQE", "approximate", 0, b))
    /\ cell' = "done"
    /\ UNCHANGED <<number_list, qubitOp, offset>>
    /\ UNCHANGED gvars

PartitionNext ==
    ReadNumbers \/ RandomNumbers \/ NumPySolve \/ CplexSolve \/ CplexSkipped \/ VQESolve

PartitionSpec == PartitionInit /\ [][PartitionNext]_vars

\* the cells are run one after the other to the end of the notebook
FairPartitionSpec == PartitionSpec /\ WF_vars(PartitionNext)

\* ------------------------------------------- properties of brute_force
Balanced(n) == {a \in Assignments(n) : SumSeq(a) * 2 = n}
complement(a) == [k \in DOMAIN a |-> 1 - a[k]]
Crossing(a, n) == {p \in Pairs(n) : a[p[1]] # a[p[2]]}

\* total weight of the crossing edges of a
CrossingWeight(a, m) ==
    SumOver(Crossing(a, Len(m)), [p \in Pairs(Len(m)) |-> m[p[1]][p[2]]])

\* crossing edges of a, each edge with a non-zero weight counted as 1
CrossingUnits(a, m) ==
    SumOver(Pairs(Len(m)),
            [p \in Pairs(Len(m)) |->
                IF a[p[1]] # a[p[2]] /\ m[p[1]][p[2]] # 0 THEN 1 ELSE 0])

\* number of vertex pairs joined by an edge and split by a
CrossingEdges(a, m) ==
    Cardinality({p \in Crossing(a, Len(m)) : m[p[1]][p[2]] # 0})

Evaluated == {e[1] : e \in evaluated}

\* C1: on the 4-node example graph brute_force returns 3, and the balanced
\* assignment [0,1,0,1] achieves that value.
C1_ExampleReturnsThree ==
    (pc = "done" /\ w = wExample) =>
        /\ sol = Num(3)
        /\ <<0, 1, 0, 1>> \in Balanced(4)
        /\ <<(<<0, 1, 0, 1>>), 3>> \in evaluated

C1_Witness == pc = "done" /\ w = wExample /\ ~sol.inf

\* C2: for every n and w, brute_force visits 0 .. 2^n - 1 in increasing
\* order, evaluates exactly the balanced assignments and returns the minimum
\* of the objective over them (np.inf when there is none).
C2_EnumeratesAndMinimises ==
    /\ visited = [k \in 1..Len(visited) |-> k - 1]
    /\ Evaluated \subseteq Balanced(num_nodes)
    /\ pc = "done" =>
        /\ Len(visited) = Pow2(num_nodes)
        /\ Evaluated = Balanced(num_nodes)
        /\ sol = IF Balanced(num_nodes) = {} THEN Inf
                 ELSE Num(MinOf({objective_value(a, w) : a \in Balanced(num_nodes)}))

C2_Witness ==
    /\ pc = "done" /\ num_nodes = 4 /\ Cardinality(evaluated) = 6
    /\ \E e \in evaluated : Num(e[2]) # sol

\* C3 as stated: every evaluated objective is the total weight of the
\* crossing edges.
C3_WeightedCut ==
    IsSymmetric(w) => \A e \in evaluated : e[2] = CrossingWeight(e[1], w)

\* C3 amended: every evaluated objective is the sum, over the edges whose
\* endpoints are in different partitions, of 1 per edge of non-zero weight;
\* edges inside one partition contribute nothing.
C3_UnitCut ==
    IsSymmetric(w) => \A e \in evaluated : e[2] = CrossingUnits(e[1], w)

C3_Witness ==
    /\ IsSymmetric(w)
    /\ \E e \in evaluated : e[2] = 3 /\ CrossingWeight(e[1], w) # 3

\* C4: the value brute_force minimises is the number of crossing edges: the
\* count of vertex pairs of non-zero weight split by the assignment, whatever
\* the magnitude or sign of the weights.
C4_CountsCrossingEdges ==
    IsSymmetric(w) =>
        /\ \A e \in evaluated :
              /\ e[2] = CrossingEdges(e[1], w)
              /\ e[2] = objective_value(e[1], w_01(w))
        /\ (pc = "done" /\ evaluated # {}) =>
              sol = Num(MinOf({CrossingEdges(a, w) : a \in Balanced(num_nodes)}))

C4_Witness ==
    /\ pc = "done" /\ IsSymmetric(w) /\ sol = Num(2)
    /\ \E r \in 1..num_nodes : \E c \in 1..num_nodes : w[r][c] < 0
    /\ \E r \in 1..num_nodes : \E c \in 1..num_nodes : w[r][c] > 0

\* C6: for symmetric w, an evaluated balanced assignment and its complement
\* have the same objective, so the complement of a minimiser is a minimiser.
C6_ComplementInvariant ==
    IsSymmetric(w) =>
        /\ \A e \in evaluated : objective_value(complement(e[1]), w) = e[2]
        /\ pc = "done" =>
              \A e \in evaluated :
                  Num(e[2]) = sol => <<complement(e[1]), sol.val>> \in evaluated

C6_Witness ==
    /\ pc = "done" /\ IsSymmetric(w) /\ num_nodes = 4
    /\ \E e \in evaluated : Num(e[2]) = sol /\ e[2] > 0

\* C8: with a single vertex brute_force does not return 0 or any other
\* objective value: the outcome is np.inf, which no assignment produces.
C8_SingleVertexNoValue ==
    (pc = "done" /\ num_nodes = 1) =>
        /\ sol = Inf
        /\ evaluated = {}
        /\ \A a \in Assignments(1) : Num(objective_value(a, w)) # sol

C8_Witness == pc = "done" /\ num_nodes = 1 /\ sol.inf

\* ------------------------------------------- properties of partition.ipynb
Solved(solver) == {k \in 1..Len(out) : out[k].solver = solver}

\* C5: the number-partition objective of every assignment equals that of its
\* complement; for [9,8,23,4,2] both [1,1,0,1,1] and [0,0,1,0,0] give 0.
C5_PartitionComplement ==
    /\ \A a \in Assignments(Len(number_list)) :
          partition_value(a, number_list) = partition_value(complement(a), number_list)
    /\ \A k \in 1..Len(out) :
          out[k].status # "skipped" =>
              out[k].value = partition_value(complement(out[k].x), number_list)
    /\ number_list = seeded_list =>
          /\ partition_value(<<1, 1, 0, 1, 1>>, number_list) = 0
          /\ partition_value(<<0, 0, 1, 0, 0>>, number_list) = 0

C5_Witness ==
    /\ cell = "done" /\ number_list = seeded_list
    /\ x = <<0, 0, 1, 0, 0>> /\ out[1].x = <<1, 1, 0, 1, 1>>
    /\ out[1].value = 0 /\ out[Len(out)].value = 0

\* C7: a ClassicalCPLEX failure is handled inside its cell: number_list,
\* qubitOp and offset are left as they were, the run goes on to the VQE cell,
\* and the VQE cell then runs and prints its results.
C7_CplexSkipIsLocal ==
    /\ [][cell = "cplex" =>
            /\ cell' = "vqe"
            /\ number_list' = number_list
            /\ qubitOp' = qubitOp
            /\ offset' = offset]_vars
    /\ (cell = "vqe" /\ out[Len(out)].status = "skipped")
          ~> (cell = "done" /\ out[Len(out)].solver = "VQE"
              /\ out[Len(out) - 1].status = "skipped")

C7_Witness ==
    /\ cell = "done"
    /\ out[2].solver = "ClassicalCPLEX" /\ out[2].status = "skipped"
    /\ out[3].solver = "VQE" /\ out[3].status = "approximate"
    /\ number_list = seeded_list /\ offset = 694

\* C10: with s = 1 - 2b, the energy of the pairwise spin products plus the
\* offset equals the partition objective of every assignment; for
\* [9,8,23,4,2] the offset is 694, the minimal energy -694 and the minimal
\* partition objective 0.
C10_IsingMatchesObjective ==
    /\ \A b \in Assignments(Len(number_list)) :
          Eigenvalue(qubitOp, b) + offset = partition_value(b, number_list)
    /\ \A k \in Solved("NumPyMinimumEigensolver") :
          /\ out[k].objective = out[k].value
          /\ \A b \in Assignments(Len(number_list)) :
                out[k].objective <= partition_value(b, number_list)
    /\ number_list = seeded_list =>
          /\ offset = 694
          /\ \A k \in Solved("NumPyMinimumEigensolver") :
                out[k].energy = -694 /\ out[k].objective = 0

C10_Witness ==
    /\ number_list = seeded_list /\ cell = "cplex"
    /\ out[1].solver = "NumPyMinimumEigensolver"
    /\ out[1].energy = -694 /\ out[1].x = <<1, 1, 0, 1, 1>>

\* C9 as stated: an empty number list is rejected before the objective is
\* constructed, so once cell 2 has bound qubitOp and offset the list it was
\* given is not empty.
C9_MalformedRejected == cell = "random" => number_list # <<>>

====
